---- MODULE Spec2Model ----
(***************************************************************************)
(* Document Forge: the Generator component (the mapping editor, the live   *)
(* preview and the upload / update_data / generate request flow) together  *)
(* with the parts of the generation engine the Generator drives through    *)
(* the REST / WebSocket contract (Row Batcher, Mapping Resolver, Progress  *)
(* Reporter).                                                              *)
(*                                                                         *)
(* Strings are sequences of one-character strings, so that case mapping,   *)
(* concatenation and emptiness are computed and not assumed.               *)
(***************************************************************************)
EXTENDS Integers, Sequences, FiniteSets, TLC

(***************************************************************************)
(* Bounds of the model.                                                    *)
(***************************************************************************)
MaxRows == 3

MaxRowsPerDoc == 3

(* most tables (tablesOnly) or pages (allText) the Extractor finds in a PDF *)
MaxTables == 2

(***************************************************************************)
(* Strings and the JavaScript string operations the component uses.        *)
(***************************************************************************)
EmptyStr == << >>

LowerLetters ==
    <<"a", "b", "c", "d", "e", "f", "g", "h", "i", "j", "k", "l", "m",
      "n", "o", "p", "q", "r", "s", "t", "u", "v", "w", "x", "y", "z">>

UpperLetters ==
    <<"A", "B", "C", "D", "E", "F", "G", "H", "I", "J", "K", "L", "M",
      "N", "O", "P", "Q", "R", "S", "T", "U", "V", "W", "X", "Y", "Z">>

LetterIdx == 1..Len(LowerLetters)

toUpperChar(c) ==
    IF \E i \in LetterIdx : LowerLetters[i] = c
    THEN UpperLetters[CHOOSE i \in LetterIdx : LowerLetters[i] = c]
    ELSE c

toLowerChar(c) ==
    IF \E i \in LetterIdx : UpperLetters[i] = c
    THEN LowerLetters[CHOOSE i \in LetterIdx : UpperLetters[i] = c]
    ELSE c

toUpperCase(s) == [i \in 1..Len(s) |-> toUpperChar(s[i])]

toLowerCase(s) == [i \in 1..Len(s) |-> toLowerChar(s[i])]

Min(a, b) == IF a < b THEN a ELSE b

(* Math.ceil(a / b) for a >= 0 and b > 0 *)
MathCeilDiv(a, b) == IF a % b = 0 THEN a \div b ELSE (a \div b) + 1

(***************************************************************************)
(* Data the service can be handed: column names, cell values, rows.        *)
(***************************************************************************)
ColName == <<"N", "a", "m", "e">>

ColAmount == <<"A", "m", "o", "u", "n", "t">>

ValAlice == <<"A", "n", "n">>

ValTen == <<"1", "0">>

(* a row is a function from column names to string values *)
RowAlice == (ColName :> ValAlice) @@ (ColAmount :> ValTen)

RowBob == (ColName :> <<"B", "o">>) @@ (ColAmount :> EmptyStr)

(* a row without the Amount key: rows may have heterogeneous keys *)
RowShort == (ColName :> <<"D", "e", "e">>)

RowPool == {RowAlice, RowBob, RowShort}

RECURSIVE SeqsUpTo(_, _)
SeqsUpTo(S, n) ==
    IF n = 0 THEN {<< >>}
    ELSE LET shorter == SeqsUpTo(S, n - 1)
         IN  shorter \cup {Append(q, x) : q \in {r \in shorter : Len(r) = n - 1}, x \in S}

(***************************************************************************)
(* Row Batcher (engine, spec 4.3).                                         *)
(***************************************************************************)
(* rowsPerDoc <= 0 is treated as 1 *)
effectiveRowsPerDoc(r) == IF r <= 0 THEN 1 ELSE r

documentCountFloor(n, r) == n \div effectiveRowsPerDoc(r)

(* ceil(n / rowsPerDoc): the least k with k * rowsPerDoc >= n *)
documentCount(n, r) ==
    LET e == effectiveRowsPerDoc(r)
    IN  CHOOSE k \in 0..n : k * e >= n /\ \A j \in 0..n : j * e >= n => k <= j

(* group i (1-based here) holds rows [(i-1)*e, min(i*e, n)) *)
batch(rows, r) ==
    LET e == effectiveRowsPerDoc(r)
        n == Len(rows)
    IN  [i \in 1..documentCount(n, r) |-> SubSeq(rows, (i - 1) * e + 1, Min(i * e, n))]

RECURSIVE Flatten(_)
Flatten(gs) == IF gs = << >> THEN << >> ELSE Head(gs) \o Flatten(Tail(gs))

(***************************************************************************)
(* Template placeholders and the files a user can pick.  A data file is    *)
(* identified by the dataset the service parses out of it, a template file *)
(* by the placeholders the Template Introspector finds in it.              *)
(***************************************************************************)
PhName == <<"#", "N", "a", "m", "e">>

PhAmount == <<"#", "A", "m", "o", "u", "n", "t">>

(* a tag no header equals after normalisation: "amt" is at distance 2 of *)
(* "name" and at distance 3 of "amount"                                  *)
PhAmt == <<"#", "A", "m", "t">>

NoFile == "null"

DataFiles == {"ann_bob.csv", "bob_ann.csv", "ragged.csv", "empty.csv", "spaced.csv", "ties.csv"}

(* headers that differ from the tags in case and white space, or by a few letters *)
ColAmountSpaced == <<"A", "M", "O", " ", "U", "N", "T", " ">>

ColNam == <<"N", "a", "m">>

ColNme == <<"N", "m", "e">>

TemplateFiles == {"letter.docx", "label.docx", "tag.docx"}

DatasetOf(f) ==
    CASE f = "ann_bob.csv" -> [headers |-> <<ColName, ColAmount>>, rows |-> <<RowAlice, RowBob>>]
      [] f = "bob_ann.csv" -> [headers |-> <<ColName, ColAmount>>, rows |-> <<RowBob, RowAlice, RowAlice>>]
      [] f = "ragged.csv"  -> [headers |-> <<ColName, ColAmount>>, rows |-> <<RowShort, RowAlice>>]
      [] f = "empty.csv"   -> [headers |-> <<ColName, ColAmount>>, rows |-> << >>]
      [] f = "spaced.csv"  -> [headers |-> <<ColNam, ColAmountSpaced, ColName>>,
                               rows |-> <<[h \in {ColNam, ColAmountSpaced, ColName} |-> ValTen]>>]
      [] f = "ties.csv"    -> [headers |-> <<ColNme, ColNam>>,
                               rows |-> <<[h \in {ColNme, ColNam} |-> ValAlice]>>]

TemplateOf(f) ==
    CASE f = "letter.docx" -> [placeholders |-> <<PhName, PhAmount>>, rows_per_doc |-> 2]
      [] f = "label.docx"  -> [placeholders |-> <<PhAmount>>, rows_per_doc |-> 1]
      [] f = "tag.docx"    -> [placeholders |-> <<PhAmt>>, rows_per_doc |-> 0]

Range(q) == {q[i] : i \in DOMAIN q}

(***************************************************************************)
(* MappingConfig.  The optional fields of the interface are represented by *)
(* their falsy values: fallback "" , modifier "none", fromMemory FALSE.    *)
(***************************************************************************)
MappingTypes == {"data_column", "custom_text", "combined"}

Config(t, v, c, p, s, f, m, fm) ==
    [type |-> t, value |-> v, customText |-> c, prefix |-> p, suffix |-> s,
     fallback |-> f, modifier |-> m, fromMemory |-> fm]

(* the literal { type, value, customText: "", prefix: "", suffix: "" } *)
FreshConfig(t, v) == Config(t, v, EmptyStr, EmptyStr, EmptyStr, EmptyStr, "none", FALSE)

NoMappings == << >>

(***************************************************************************)
(* computePreview (Generator, live preview of the first preview row).      *)
(***************************************************************************)
lookupRaw(row, key) == IF key \in DOMAIN row THEN row[key] ELSE <<"u", "n", "d", "e", "f">>

(* firstRow[conf.value] || "" *)
lookup(row, key) == IF key \in DOMAIN row THEN row[key] ELSE EmptyStr

previewValue(conf, firstRow) ==
    LET val0 == IF conf.type = "custom_text" THEN conf.customText
                ELSE IF conf.type = "data_column" /\ conf.value # EmptyStr
                     THEN lookup(firstRow, conf.value)
                     ELSE EmptyStr
        val1 == IF conf.prefix # EmptyStr THEN conf.prefix \o val0 ELSE val0
        val2 == IF conf.suffix # EmptyStr THEN val1 \o conf.suffix ELSE val1
        val3 == IF conf.modifier = "uppercase" THEN toUpperCase(val2) ELSE val2
        val4 == IF conf.modifier = "lowercase" THEN toLowerCase(val3) ELSE val3
        val5 == IF val4 = EmptyStr /\ conf.fallback # EmptyStr THEN conf.fallback ELSE val4
    IN  IF conf.type = "data_column" THEN val5 ELSE val2

computePreview(maps, rows) ==
    IF Len(rows) = 0 THEN << >>
    ELSE [ph \in DOMAIN maps |-> previewValue(maps[ph], rows[1])]

(***************************************************************************)
(* Mapping Resolver (engine, spec 4.2): resolve(placeholder, config, row). *)
(***************************************************************************)
applyModifier(m, s) ==
    IF m = "uppercase" THEN toUpperCase(s)
    ELSE IF m = "lowercase" THEN toLowerCase(s)
    ELSE s

resolve(conf, row) ==
    LET base == IF conf.type = "custom_text" THEN conf.customText
                ELSE IF conf.value \in DOMAIN row THEN row[conf.value] ELSE EmptyStr
    IN  CASE conf.type = "data_column" ->
               LET r == applyModifier(conf.modifier, base)
               IN  IF r = EmptyStr /\ conf.fallback # EmptyStr THEN conf.fallback ELSE r
          [] conf.type = "combined" -> conf.prefix \o base \o conf.suffix
          [] conf.type = "custom_text" -> base

(***************************************************************************)
(* Header matching: normalisation and levenshteinDistance.                 *)
(***************************************************************************)
IsWhitespace(c) == c = " "

NotWhitespace(c) == ~IsWhitespace(c)

(* s.replace("#", ""): removes the first "#" only *)
RemoveFirstHash(s) ==
    IF \E i \in 1..Len(s) : s[i] = "#"
    THEN LET k == CHOOSE i \in 1..Len(s) : s[i] = "#" /\ \A j \in 1..(i - 1) : s[j] # "#"
         IN  SubSeq(s, 1, k - 1) \o SubSeq(s, k + 1, Len(s))
    ELSE s

(* ph.replace("#", "").toLowerCase().replace(/\s/g, "") *)
cleanPh(ph) == SelectSeq(toLowerCase(RemoveFirstHash(ph)), NotWhitespace)

(* header.toLowerCase().replace(/\s/g, "") *)
cleanHeader(h) == SelectSeq(toLowerCase(h), NotWhitespace)

HeaderPAddress == <<"P", "_", " ", "A", "D", "D", "R", "E", "S", "S">>

PhPAddress == <<"#">> \o HeaderPAddress

exactMatch(header, ph) ==
    \/ cleanHeader(header) = cleanPh(ph)
    \/ (header = HeaderPAddress /\ ph = PhPAddress)

levenshteinDistance(a, b) ==
    IF Len(a) = 0 THEN Len(b)
    ELSE IF Len(b) = 0 THEN Len(a)
    ELSE LET matrix[i \in 0..Len(b), j \in 0..Len(a)] ==
                 IF i = 0 THEN j
                 ELSE IF j = 0 THEN i
                 ELSE IF b[i] = a[j] THEN matrix[i - 1, j - 1]
                 ELSE Min(matrix[i - 1, j - 1] + 1,
                          Min(matrix[i, j - 1] + 1, matrix[i - 1, j] + 1))
         IN  matrix[Len(b), Len(a)]

Infinity == 1000000

(* the header loop of smartMapAll from index i on; best = <<bestMatch, minDistance>> *)
RECURSIVE smartScan(_, _, _, _)
smartScan(headers, ph, i, best) ==
    IF i > Len(headers) THEN best
    ELSE IF exactMatch(headers[i], ph) THEN <<headers[i], 0>>
    ELSE LET dist == levenshteinDistance(cleanPh(ph), cleanHeader(headers[i]))
         IN  IF dist < best[2] /\ dist <= 3
             THEN smartScan(headers, ph, i + 1, <<headers[i], dist>>)
             ELSE smartScan(headers, ph, i + 1, best)

smartBestMatchAnyDistance(headers, ph) ==
    LET d(i) == levenshteinDistance(cleanPh(ph), cleanHeader(headers[i]))
    IN  headers[CHOOSE i \in 1..Len(headers) :
                    \A j \in 1..Len(headers) : d(i) < d(j) \/ (d(i) = d(j) /\ i <= j)]

smartBestMatch(headers, ph) == smartScan(headers, ph, 1, <<EmptyStr, Infinity>>)[1]

(* the header loop of autoDetectMappings: the first exactly matching header *)
RECURSIVE exactScan(_, _, _)
exactScan(headers, ph, i) ==
    IF i > Len(headers) THEN EmptyStr
    ELSE IF exactMatch(headers[i], ph) THEN headers[i]
    ELSE exactScan(headers, ph, i + 1)

detectMappingUnchecked(mem, headers, ph) ==
    IF ph \in DOMAIN mem
    THEN [mem[ph] EXCEPT !.fromMemory = TRUE]
    ELSE FreshConfig(IF exactScan(headers, ph, 1) # EmptyStr THEN "data_column" ELSE "custom_text",
                     exactScan(headers, ph, 1))

(* one iteration of docxPlaceholders.forEach in autoDetectMappings *)
detectMapping(mem, headers, ph) ==
    IF /\ ph \in DOMAIN mem
       /\ \/ (mem[ph].type \in {"data_column", "combined"} /\ mem[ph].value \in Range(headers))
          \/ (mem[ph].type = "custom_text" /\ mem[ph].customText # EmptyStr)
    THEN [mem[ph] EXCEPT !.fromMemory = TRUE]
    ELSE LET bestMatch == exactScan(headers, ph, 1)
         IN  FreshConfig(IF bestMatch # EmptyStr THEN "data_column" ELSE "custom_text", bestMatch)

(* the mappings object after autoDetectMappings *)
autoDetected(maps, mem, headers, phs) ==
    [ph \in DOMAIN maps \cup Range(phs) |->
        IF ph \in Range(phs) THEN detectMapping(mem, headers, ph) ELSE maps[ph]]

(* the mappings object after the forEach of smartMapAll *)
smartMapped(maps, headers, phs) ==
    LET hit == {ph \in Range(phs) : smartBestMatch(headers, ph) # EmptyStr}
    IN  [ph \in DOMAIN maps \cup hit |->
            IF ph \in hit THEN FreshConfig("data_column", smartBestMatch(headers, ph))
            ELSE maps[ph]]

(***************************************************************************)
(* localStorage: the reactive blocks that run whenever mappings changes.   *)
(***************************************************************************)
isFilled(conf) == conf.value # EmptyStr \/ conf.customText # EmptyStr

(* docforge_global_memory after the reactive block ran on maps *)
savedMemory(mem, maps) ==
    IF DOMAIN maps = {} THEN mem
    ELSE LET filled == {ph \in DOMAIN maps : isFilled(maps[ph])}
         IN  [ph \in DOMAIN mem \cup filled |-> IF ph \in filled THEN maps[ph] ELSE mem[ph]]

(* docforge_mappings after the reactive block ran on maps *)
savedMappings(old, maps) == IF DOMAIN maps = {} THEN old ELSE maps

(***************************************************************************)
(* Inputs of the user and of earlier visits, drawn from small sets.        *)
(***************************************************************************)
PrefixInputs == {EmptyStr, <<"I", "d", " ">>}

SuffixInputs == {EmptyStr, <<"!">>}

CustomTextInputs == {EmptyStr, <<"h", "i">>}

ValZero == <<"0">>

(* docforge_global_memory as earlier visits may have left it *)
MemoryInputs ==
    { << >>,
      (PhAmount :> Config("data_column", ColAmount, EmptyStr, EmptyStr, EmptyStr,
                          ValZero, "uppercase", FALSE)) }

(* mapping profiles a user may load with importProfile *)
ProfileInputs ==
    { << >>,
      (PhName :> FreshConfig("data_column", ColName)) }

(* the descriptive single-line messages of the parse-time errors (spec 7) *)
UploadErrors == {"DataValidationError: the dataset has no header row"}

MetadataErrors == {"TemplateParseError: not a well-formed template package"}

(* number of leading rows metadata returns as preview_rows *)
PreviewLimit == 2

(***************************************************************************)
(* State.                                                                  *)
(***************************************************************************)
VARIABLES
    (* Generator component *)
    step,
    dataFile,
    docxFile,
    isUploading,
    sessionId,
    errorMsg,
    previewRows,
    rawHeaders,
    isEditingData,
    isSavingData,
    findText,
    replaceText,
    progressCurrent,
    progressTotal,
    progressMessage,
    wsConnection,       \* "null" | "open"
    dataHeaders,
    docxPlaceholders,
    totalRows,
    mappings,
    isGenerating,
    generationComplete,
    rowsPerDoc,
    downloadUrl,

    (* localStorage *)
    memory,             \* docforge_global_memory
    lsMappings,         \* docforge_mappings

    (* requests in flight: the awaits of the async handlers *)
    pcUpload,           \* "idle" | "upload" | "metadata"
    upFiles,            \* the FormData of the upload request
    pcSave,             \* "idle" | "sent"
    saveBody,           \* the body of the update_data request
    pcGen,              \* "idle" | "sent"
    genReq,             \* the body of the generate request
    blob,               \* the Blob downloadUrl refers to

    (* engine side of the session *)
    srvFiles,           \* the files persisted under the session
    srvRows,            \* the session's DataSet (ordered rows)
    groups,             \* the row groups the Row Batcher produced
    pcBatch,            \* "idle" | "done": position of the stand-alone batcher
    jobState,           \* "none" | "running" | "done" | "failed"
    completed,          \* indices of the batches rendered so far, in completion order
    increments,         \* increment messages of the workers, not yet aggregated
    events,             \* the events the Progress Reporter emitted, in order
    wsChannel,          \* progress messages on their way to the client
    upError,            \* the descriptive message of the failed upload / metadata response
    artifacts,          \* the artifacts the batch workers handed to the Output Packager
    archive,            \* the packaged artifact of the finished job

    (* Generator: generation options and document settings *)
    options,
    showDocSettings,
    docSettings,

    (* Extractor component; its step, isUploading and errorMsg carry the prefix ex *)
    exStep,
    pdfFile,
    exIsUploading,
    processingOption,
    outputFormat,
    exErrorMsg,
    pcExtract,          \* "idle" | "sent"
    exReq,              \* the FormData of the converter/extract request
    exResponse,         \* what the service answered last
    exDownload,         \* the download the component triggered last

    (* Document Renderer applied on its own *)
    rnTemplate,
    rnMapping,
    rnBatch,
    pcRender,           \* "idle" | "done"
    rendered

uploadVars == <<dataFile, docxFile, isUploading, sessionId, pcUpload, upFiles, srvFiles, upError>>

metaVars == <<previewRows, rawHeaders, dataHeaders, docxPlaceholders, totalRows, rowsPerDoc>>

mapVars == <<mappings, memory, lsMappings>>

findVars == <<findText, replaceText>>

saveVars == <<isEditingData, isSavingData, pcSave, saveBody, findVars>>

settingsVars == <<options, showDocSettings, docSettings>>

genVars == <<isGenerating, generationComplete, downloadUrl, pcGen, genReq, blob, settingsVars>>

progressVars == <<progressCurrent, progressTotal, progressMessage, wsConnection, wsChannel>>

jobVars == <<groups, jobState, completed, increments, events, artifacts, archive>>

extractorVars ==
    <<exStep, pdfFile, exIsUploading, processingOption, outputFormat, exErrorMsg,
      pcExtract, exReq, exResponse, exDownload>>

renderVars == <<rnTemplate, rnMapping, rnBatch, pcRender, rendered>>

asideVars == <<extractorVars, renderVars>>

vars ==
    <<step, errorMsg, uploadVars, metaVars, mapVars, saveVars, genVars,
      progressVars, jobVars, srvRows, pcBatch, asideVars>>

(* $: previewOutput = computePreview(mappings, previewRows) *)
previewOutput == computePreview(mappings, previewRows)

(* $: estimatedDocs = rowsPerDoc > 0 ? Math.ceil(totalRows / rowsPerDoc) : totalRows *)
estimatedDocsFloor == IF rowsPerDoc > 0 THEN totalRows \div rowsPerDoc ELSE totalRows

estimatedDocs ==
    IF rowsPerDoc > 0 THEN MathCeilDiv(totalRows, rowsPerDoc) ELSE totalRows

(* no request in flight: a record, as every request body is one *)
NoRequest == [none |-> TRUE]

(* the declarations of the component's <script> block, except what Init draws; *)
(* page dimensions are in hundredths of an inch (the inputs have step 0.01)    *)
ComponentInit ==
    /\ step = 1
    /\ dataFile = NoFile
    /\ docxFile = NoFile
    /\ isUploading = FALSE
    /\ sessionId = ""
    /\ errorMsg = ""
    /\ previewRows = << >>
    /\ rawHeaders = << >>
    /\ isEditingData = FALSE
    /\ isSavingData = FALSE
    /\ findText = EmptyStr
    /\ replaceText = EmptyStr
    /\ progressCurrent = 0
    /\ progressTotal = 0
    /\ progressMessage = ""
    /\ wsConnection = "null"
    /\ dataHeaders = << >>
    /\ docxPlaceholders = << >>
    /\ mappings = NoMappings
    /\ isGenerating = FALSE
    /\ generationComplete = FALSE
    /\ downloadUrl = ""
    /\ lsMappings = NoMappings
    /\ pcUpload = "idle"
    /\ upFiles = NoRequest
    /\ pcSave = "idle"
    /\ saveBody = NoRequest
    /\ pcGen = "idle"
    /\ genReq = NoRequest
    /\ blob = << >>
    /\ options = [docx |-> TRUE, pdf |-> TRUE, removeEmptyPages |-> TRUE, mergeOutput |-> FALSE]
    /\ showDocSettings = FALSE
    /\ docSettings = [pageSize |-> "default", customWidth |-> 850, customHeight |-> 1100,
                      fontName |-> "", fontSize |-> 0]

EngineInit ==
    /\ srvFiles = NoRequest
    /\ upError = ""
    /\ groups = << >>
    /\ jobState = "none"
    /\ completed = << >>
    /\ increments = << >>
    /\ events = << >>
    /\ wsChannel = {}
    /\ artifacts = << >>
    /\ archive = << >>

(* no download was triggered yet *)
NoDownload == [ext |-> "", kind |-> ""]

(* pdfFile = null: no file is held (a file is held by its name, a string) *)
NoPdf == EmptyStr

(* the declarations of the Extractor's <script> block *)
ExtractorInit ==
    /\ exStep = 1
    /\ pdfFile = NoPdf
    /\ exIsUploading = FALSE
    /\ processingOption = "allText"
    /\ outputFormat = "excel"
    /\ exErrorMsg = ""
    /\ pcExtract = "idle"
    /\ exReq = NoRequest
    /\ exResponse = NoRequest
    /\ exDownload = NoDownload

RenderIdle ==
    /\ rnTemplate = << >>
    /\ rnMapping = << >>
    /\ rnBatch = << >>
    /\ pcRender = "idle"
    /\ rendered = << >>

Init ==
    /\ ComponentInit
    /\ EngineInit
    /\ ExtractorInit
    /\ RenderIdle
    /\ totalRows = 0
    /\ rowsPerDoc = 1
    /\ memory \in MemoryInputs
    /\ srvRows = << >>
    /\ pcBatch = "idle"

(***************************************************************************)
(* The Row Batcher applied to every bounded input.                         *)
(***************************************************************************)
InitBatch ==
    /\ ComponentInit
    /\ EngineInit
    /\ ExtractorInit
    /\ RenderIdle
    /\ memory = << >>
    /\ srvRows \in SeqsUpTo(RowPool, MaxRows)
    /\ rowsPerDoc \in (-1)..MaxRowsPerDoc
    /\ totalRows = Len(srvRows)
    /\ pcBatch = "idle"

RunBatch ==
    /\ pcBatch = "idle"
    /\ groups' = batch(srvRows, rowsPerDoc)
    /\ pcBatch' = "done"
    /\ UNCHANGED <<step, errorMsg, uploadVars, metaVars, mapVars, saveVars, genVars,
                   progressVars, jobState, completed, increments, events, artifacts,
                   archive, srvRows, asideVars>>

NextBatch == RunBatch

SpecBatch == InitBatch /\ [][NextBatch]_vars

(* C1: the groups of batch(rows, rowsPerDoc) are non-empty, group i is exactly  *)
(* rows [i*rowsPerDoc, min((i+1)*rowsPerDoc, n)), and concatenating the groups *)
(* in index order gives back the original row sequence.                        *)
BatchPartitionsRows ==
    pcBatch = "done" =>
        LET e == IF rowsPerDoc <= 0 THEN 1 ELSE rowsPerDoc
            n == Len(srvRows)
        IN  /\ Flatten(groups) = srvRows
            /\ \A i \in 1..Len(groups) :
                  /\ groups[i] # << >>
                  /\ groups[i] = [k \in 1..(Min(i * e, n) - (i - 1) * e) |-> srvRows[(i - 1) * e + k]]

BatchPartitionsRowsWitness ==
    /\ pcBatch = "done"
    /\ rowsPerDoc >= 2
    /\ Len(groups) >= 2
    /\ Len(groups[Len(groups)]) < rowsPerDoc

(* C2: the document count is ceil(n / rowsPerDoc), a rowsPerDoc <= 0 counts as *)
(* 1, no rows give no documents, and estimatedDocs is this same number.        *)
DocumentCountIsCeil ==
    pcBatch = "done" =>
        LET n == Len(srvRows)
            k == Len(groups)
        IN  /\ rowsPerDoc >= 1 => ((k * rowsPerDoc >= n /\ (k - 1) * rowsPerDoc < n) \/ (n = 0 /\ k = 0))
            /\ rowsPerDoc <= 0 => k = n
            /\ n = 0 => groups = << >>
            /\ estimatedDocs = k

DocumentCountIsCeilWitness ==
    /\ pcBatch = "done"
    /\ rowsPerDoc >= 2
    /\ totalRows % rowsPerDoc # 0
    /\ estimatedDocs = (totalRows \div rowsPerDoc) + 1

(***************************************************************************)
(* Generator: file selection and handleUpload.                             *)
(***************************************************************************)
onDataDrop(f) ==
    /\ step = 1
    /\ dataFile' = f
    /\ UNCHANGED <<step, errorMsg, docxFile, isUploading, sessionId, pcUpload, upFiles,
                   srvFiles, upError, metaVars, mapVars, saveVars, genVars, progressVars,
                   jobVars, srvRows, pcBatch, asideVars>>

onDocxDrop(f) ==
    /\ step = 1
    /\ docxFile' = f
    /\ UNCHANGED <<step, errorMsg, dataFile, isUploading, sessionId, pcUpload, upFiles,
                   srvFiles, upError, metaVars, mapVars, saveVars, genVars, progressVars,
                   jobVars, srvRows, pcBatch, asideVars>>

(* handleUpload up to the first await *)
handleUpload ==
    /\ step = 1
    /\ dataFile # NoFile /\ docxFile # NoFile
    /\ ~isUploading
    /\ isUploading' = TRUE
    /\ errorMsg' = ""
    /\ upFiles' = [data_file |-> dataFile, template_file |-> docxFile]
    /\ pcUpload' = "upload"
    /\ upError' = ""
    /\ UNCHANGED <<step, dataFile, docxFile, sessionId, srvFiles, metaVars, mapVars,
                   saveVars, genVars, progressVars, jobVars, srvRows, pcBatch, asideVars>>

(* upload answered ok: the service persisted both inputs under a session *)
uploadOk ==
    /\ pcUpload = "upload"
    /\ srvFiles' = upFiles
    /\ srvRows' = DatasetOf(upFiles.data_file).rows
    /\ sessionId' = "session"
    /\ pcUpload' = "metadata"
    /\ UNCHANGED <<step, errorMsg, dataFile, docxFile, isUploading, upFiles, upError, metaVars,
                   mapVars, saveVars, genVars, progressVars, jobVars, pcBatch, asideVars>>

(* as uploadFailed, with step = 2 reached on the failure path as well *)
uploadFailedAdvancing(msg) ==
    /\ pcUpload = "upload"
    /\ upError' = msg
    /\ errorMsg' = "Upload failed"
    /\ isUploading' = FALSE
    /\ pcUpload' = "idle"
    /\ step' = 2
    /\ UNCHANGED <<dataFile, docxFile, sessionId, upFiles, srvFiles, metaVars,
                   mapVars, saveVars, genVars, progressVars, jobVars, srvRows, pcBatch, asideVars>>

(* upload answered with an error status whose body carries the message msg *)
uploadFailed(msg) ==
    /\ pcUpload = "upload"
    /\ upError' = msg
    /\ errorMsg' = "Upload failed"
    /\ isUploading' = FALSE
    /\ pcUpload' = "idle"
    /\ UNCHANGED <<step, dataFile, docxFile, sessionId, upFiles, srvFiles, metaVars,
                   mapVars, saveVars, genVars, progressVars, jobVars, srvRows, pcBatch, asideVars>>

(* metadata answered ok: the assignments, autoDetectMappings(), step = 2 *)
metadataOk ==
    /\ pcUpload = "metadata"
    /\ LET data == DatasetOf(srvFiles.data_file)
           tmpl == TemplateOf(srvFiles.template_file)
           maps == autoDetected(mappings, memory, data.headers, tmpl.placeholders)
       IN  /\ dataHeaders' = data.headers
           /\ docxPlaceholders' = tmpl.placeholders
           /\ totalRows' = Len(srvRows)
           /\ previewRows' = SubSeq(srvRows, 1, Min(PreviewLimit, Len(srvRows)))
           /\ rawHeaders' = data.headers
           /\ rowsPerDoc' = IF tmpl.rows_per_doc = 0 THEN 1 ELSE tmpl.rows_per_doc
           /\ mappings' = maps
           /\ memory' = savedMemory(memory, maps)
           /\ lsMappings' = savedMappings(lsMappings, maps)
    /\ step' = 2
    /\ isUploading' = FALSE
    /\ pcUpload' = "idle"
    /\ UNCHANGED <<errorMsg, dataFile, docxFile, sessionId, upFiles, srvFiles, upError, saveVars,
                   genVars, progressVars, jobVars, srvRows, pcBatch, asideVars>>

(* metadata answered with an error status whose body carries the message msg *)
metadataFailed(msg) ==
    /\ pcUpload = "metadata"
    /\ upError' = msg
    /\ errorMsg' = "Metadata extraction failed"
    /\ isUploading' = FALSE
    /\ pcUpload' = "idle"
    /\ UNCHANGED <<step, dataFile, docxFile, sessionId, upFiles, srvFiles, metaVars,
                   mapVars, saveVars, genVars, progressVars, jobVars, srvRows, pcBatch, asideVars>>

UploadFlow(dataFiles, templateFiles) ==
    \/ \E f \in dataFiles : onDataDrop(f)
    \/ \E f \in templateFiles : onDocxDrop(f)
    \/ handleUpload
    \/ uploadOk
    \/ \E msg \in UploadErrors : uploadFailed(msg)
    \/ metadataOk
    \/ \E msg \in MetadataErrors : metadataFailed(msg)

(***************************************************************************)
(* Generator: the mapping editor of step 2.                                *)
(***************************************************************************)
(* an assignment to mappings, followed by the reactive localStorage blocks *)
setMappings(maps) ==
    /\ mappings' = maps
    /\ memory' = savedMemory(memory, maps)
    /\ lsMappings' = savedMappings(lsMappings, maps)

editorFrame ==
    UNCHANGED <<step, errorMsg, uploadVars, metaVars, saveVars, genVars, progressVars,
                jobVars, srvRows, pcBatch, asideVars>>

(* a mapping card exists for ph and its controls can be used *)
cardShown(ph) ==
    /\ step = 2
    /\ ph \in Range(docxPlaceholders)
    /\ ph \in DOMAIN mappings

(* the three toggle buttons: mappings[ph].type = t *)
setType(ph, t) ==
    /\ cardShown(ph)
    /\ setMappings([mappings EXCEPT ![ph].type = t])
    /\ editorFrame

(* <select bind:value={mappings[ph].value}>, shown for data_column and combined *)
selectColumn(ph, h) ==
    /\ cardShown(ph)
    /\ mappings[ph].type \in {"data_column", "combined"}
    /\ h \in Range(dataHeaders) \cup {EmptyStr}
    /\ setMappings([mappings EXCEPT ![ph].value = h])
    /\ editorFrame

(* <input bind:value={mappings[ph].prefix}>, shown for combined *)
editPrefix(ph, p) ==
    /\ cardShown(ph)
    /\ mappings[ph].type = "combined"
    /\ setMappings([mappings EXCEPT ![ph].prefix = p])
    /\ editorFrame

(* <input bind:value={mappings[ph].suffix}>, shown for combined *)
editSuffix(ph, x) ==
    /\ cardShown(ph)
    /\ mappings[ph].type = "combined"
    /\ setMappings([mappings EXCEPT ![ph].suffix = x])
    /\ editorFrame

(* <input bind:value={mappings[ph].customText}>, shown for custom_text *)
editCustomText(ph, c) ==
    /\ cardShown(ph)
    /\ mappings[ph].type = "custom_text"
    /\ setMappings([mappings EXCEPT ![ph].customText = c])
    /\ editorFrame

smartMapAll ==
    /\ step = 2
    /\ Len(dataHeaders) # 0 /\ Len(docxPlaceholders) # 0
    /\ setMappings(smartMapped(mappings, dataHeaders, docxPlaceholders))
    /\ editorFrame

(* importProfile with a file that parses to a truthy value: mappings = loaded. *)
(* No control of the template invokes it; it is taken to be offered where the  *)
(* mapping editor is shown.                                                    *)
importProfile(loaded) ==
    /\ step = 2
    /\ mappings' = loaded
    /\ lsMappings' = loaded
    /\ memory' = savedMemory(memory, loaded)
    /\ editorFrame

(* importProfile with a file JSON.parse rejects *)
importProfileInvalid ==
    /\ step = 2
    /\ errorMsg' = "Failed to parse mapping profile."
    /\ UNCHANGED <<step, uploadVars, metaVars, mapVars, saveVars, genVars, progressVars,
                   jobVars, srvRows, pcBatch, asideVars>>

Placeholders == {PhName, PhAmount, PhAmt}

Editor ==
    \/ \E ph \in Placeholders, t \in MappingTypes : setType(ph, t)
    \/ \E ph \in Placeholders, h \in {EmptyStr, ColName, ColAmount} : selectColumn(ph, h)
    \/ \E ph \in Placeholders, p \in PrefixInputs : editPrefix(ph, p)
    \/ \E ph \in Placeholders, x \in SuffixInputs : editSuffix(ph, x)
    \/ \E ph \in Placeholders, c \in CustomTextInputs : editCustomText(ph, c)
    \/ smartMapAll
    \/ \E loaded \in ProfileInputs : importProfile(loaded)
    \/ importProfileInvalid

(* the files picked while the mapping editor is explored *)
EditorDataFiles == {"ragged.csv", "empty.csv"}

EditorTemplateFiles == {"label.docx"}

NextEditor == UploadFlow(EditorDataFiles, EditorTemplateFiles) \/ Editor

SpecEditor == Init /\ [][NextEditor]_vars

(* the column value of the first preview row a config refers to: "" when the *)
(* column name is empty or the row has no such key                          *)
firstRowValue(conf) ==
    IF conf.value \in DOMAIN previewRows[1] THEN previewRows[1][conf.value] ELSE EmptyStr

(* C3: for a combined mapping the live preview of the first preview row is *)
(* prefix + row[column] + suffix, prefix and suffix applied even to an     *)
(* empty or missing column value, no modifier or fallback applied.         *)
PreviewCombinedIsPrefixColumnSuffix ==
    \A ph \in DOMAIN mappings :
        (Len(previewRows) > 0 /\ mappings[ph].type = "combined") =>
            previewOutput[ph] =
                mappings[ph].prefix \o firstRowValue(mappings[ph]) \o mappings[ph].suffix

(* C4: for a custom_text mapping the live preview is exactly the custom text, *)
(* whatever prefix, suffix, modifier or fallback the config still carries.    *)
PreviewCustomTextIsExact ==
    \A ph \in DOMAIN mappings :
        (Len(previewRows) > 0 /\ mappings[ph].type = "custom_text") =>
            previewOutput[ph] = mappings[ph].customText

(* C5: for a data_column mapping the case modifier is applied to the column   *)
(* value and the fallback is substituted exactly when the column value is     *)
(* empty or missing and a fallback is set, whatever prefix or suffix the      *)
(* config carries (the preview may or may not wrap that value in them).       *)
PreviewDataColumnModifierFallback ==
    \A ph \in DOMAIN mappings :
        (Len(previewRows) > 0 /\ mappings[ph].type = "data_column") =>
            LET conf == mappings[ph]
                base == firstRowValue(conf)
                core == IF base = EmptyStr /\ conf.fallback # EmptyStr
                        THEN conf.fallback
                        ELSE applyModifier(conf.modifier, base)
            IN  previewOutput[ph] \in {core, conf.prefix \o core \o conf.suffix}

(* C6: a data_column or combined mapping whose column is absent from the first *)
(* row, or whose column name is empty, previews as if the column held the      *)
(* empty string; computePreview has a value for every mapped placeholder when  *)
(* a preview row exists and is empty when there is none.                       *)
PreviewMissingColumnIsEmpty ==
    /\ Len(previewRows) = 0 => previewOutput = << >>
    /\ Len(previewRows) > 0 =>
          /\ DOMAIN previewOutput = DOMAIN mappings
          /\ \A ph \in DOMAIN mappings :
                LET conf == mappings[ph]
                    row == previewRows[1]
                IN  (/\ conf.type \in {"data_column", "combined"}
                     /\ (conf.value = EmptyStr \/ conf.value \notin DOMAIN row))
                    => previewOutput[ph] = previewValue(conf, (conf.value :> EmptyStr) @@ row)

PreviewMissingColumnIsEmptyWitness ==
    /\ step = 2
    /\ Len(previewRows) > 0
    /\ \E ph \in DOMAIN mappings :
          /\ mappings[ph].type = "data_column"
          /\ mappings[ph].value = ColAmount
          /\ ColAmount \notin DOMAIN previewRows[1]
          /\ mappings[ph].fallback # EmptyStr
          /\ previewOutput[ph] = mappings[ph].fallback

(* C7: whenever the mapping step is shown (handleGenerate can only be invoked *)
(* from it), every placeholder of docxPlaceholders has an entry in mappings.  *)
EveryPlaceholderMapped ==
    step = 2 => \A ph \in Range(docxPlaceholders) : ph \in DOMAIN mappings

(***************************************************************************)
(* Generator: the live data editor and saveEditedData.                     *)
(***************************************************************************)
(* the "Edit Live Data" / "Close Editor" button *)
toggleEditor ==
    /\ step = 2
    /\ isEditingData' = ~isEditingData
    /\ UNCHANGED <<step, errorMsg, uploadVars, metaVars, mapVars, isSavingData, pcSave,
                   saveBody, findVars, genVars, progressVars, jobVars, srvRows, pcBatch, asideVars>>

(* saveEditedData up to the await; the button is disabled while isSavingData *)
saveEditedData ==
    /\ step = 2
    /\ isEditingData
    /\ ~isSavingData
    /\ isSavingData' = TRUE
    /\ saveBody' = [session_id |-> sessionId, rows |-> previewRows, headers |-> rawHeaders]
    /\ pcSave' = "sent"
    /\ UNCHANGED <<step, errorMsg, uploadVars, metaVars, mapVars, isEditingData, findVars,
                   genVars, progressVars, jobVars, srvRows, pcBatch, asideVars>>

(* update_data answered ok: the service replaced the session's DataSet *)
saveOk ==
    /\ pcSave = "sent"
    /\ srvRows' = saveBody.rows
    /\ totalRows' = Len(saveBody.rows)
    /\ isEditingData' = FALSE
    /\ isSavingData' = FALSE
    /\ pcSave' = "idle"
    /\ UNCHANGED <<step, errorMsg, uploadVars, previewRows, rawHeaders, dataHeaders,
                   docxPlaceholders, rowsPerDoc, mapVars, saveBody, findVars, genVars,
                   progressVars, jobVars, pcBatch, asideVars>>

saveFailed ==
    /\ pcSave = "sent"
    /\ errorMsg' = "Failed to save data"
    /\ isSavingData' = FALSE
    /\ pcSave' = "idle"
    /\ UNCHANGED <<step, uploadVars, metaVars, mapVars, isEditingData, saveBody, findVars,
                   genVars, progressVars, jobVars, srvRows, pcBatch, asideVars>>

(***************************************************************************)
(* Generator: handleGenerate and the progress WebSocket.                   *)
(***************************************************************************)
(* the cleanMapping payload *)
cleanMapping(maps) ==
    [ph \in DOMAIN maps |->
        [type |-> maps[ph].type,
         value |-> IF maps[ph].type = "custom_text" THEN maps[ph].customText
                   ELSE maps[ph].value,
         prefix |-> maps[ph].prefix,
         suffix |-> maps[ph].suffix]]

(* JavaScript null, and a present value, in the JSON body of a request *)
JsNull == << >>

Some(x) == <<x>>

docSettingsPayloadRaw(ds) ==
    [page_size |-> ds.pageSize,
     page_width |-> Some(ds.customWidth),
     page_height |-> Some(ds.customHeight),
     font_name |-> Some(ds.fontName),
     font_size |-> Some(ds.fontSize)]

(* the doc_settings object of the generate request body *)
docSettingsPayload(ds) ==
    [page_size |-> ds.pageSize,
     page_width |-> IF ds.pageSize = "custom" THEN Some(ds.customWidth) ELSE JsNull,
     page_height |-> IF ds.pageSize = "custom" THEN Some(ds.customHeight) ELSE JsNull,
     font_name |-> IF ds.fontName # "" THEN Some(ds.fontName) ELSE JsNull,
     font_size |-> IF ds.fontSize # 0 THEN Some(ds.fontSize) ELSE JsNull]

(* handleGenerate up to the await; the Forge button replaces the progress bar *)
(* while not isGenerating and is disabled while there are no mappings         *)
handleGenerate ==
    /\ step = 2
    /\ ~isGenerating
    /\ DOMAIN mappings # {}
    /\ isGenerating' = TRUE
    /\ errorMsg' = ""
    /\ progressCurrent' = 0
    /\ progressTotal' = totalRows
    /\ progressMessage' = "Starting generation..."
    /\ wsConnection' = "open"
    /\ genReq' = [session_id |-> sessionId, mapping |-> cleanMapping(mappings),
                  generate_docx |-> options.docx, generate_pdf |-> options.pdf,
                  remove_empty_pages |-> options.removeEmptyPages,
                  merge_output |-> options.mergeOutput,
                  rows_per_doc |-> rowsPerDoc,
                  doc_settings |-> docSettingsPayload(docSettings)]
    /\ pcGen' = "sent"
    /\ UNCHANGED <<step, uploadVars, metaVars, mapVars, saveVars, generationComplete,
                   downloadUrl, blob, settingsVars, wsChannel, jobVars, srvRows, pcBatch, asideVars>>

(* wsConnection.onmessage for a message of type "progress" *)
onmessage(m) ==
    /\ wsConnection = "open"
    /\ m \in wsChannel
    /\ wsChannel' = wsChannel \ {m}
    /\ progressCurrent' = m.current
    /\ progressTotal' = IF m.total # 0 THEN m.total ELSE progressTotal
    /\ progressMessage' = IF m.message # "" THEN m.message ELSE progressMessage
    /\ UNCHANGED <<step, errorMsg, uploadVars, metaVars, mapVars, saveVars, genVars,
                   wsConnection, jobVars, srvRows, pcBatch, asideVars>>

(* a finally block that clears the flag and leaves the socket as it is *)
generateFinallyLeavesSocket ==
    /\ wsConnection' = wsConnection
    /\ wsChannel' = wsChannel
    /\ isGenerating' = FALSE
    /\ pcGen' = "idle"

(* the finally block: close the socket, isGenerating = false *)
generateFinally ==
    /\ wsConnection' = "null"
    /\ wsChannel' = {}
    /\ isGenerating' = FALSE
    /\ pcGen' = "idle"

jobReset ==
    /\ jobState' = "none"
    /\ groups' = << >>
    /\ completed' = << >>
    /\ increments' = << >>
    /\ events' = << >>
    /\ artifacts' = << >>
    /\ archive' = << >>

(* generate answered ok with the packaged archive *)
generateOk ==
    /\ pcGen = "sent"
    /\ jobState = "done"
    /\ blob' = archive
    /\ downloadUrl' = "blob:archive"
    /\ generationComplete' = TRUE
    /\ step' = 3
    /\ generateFinally
    /\ jobReset
    /\ UNCHANGED <<errorMsg, uploadVars, metaVars, mapVars, saveVars, genReq, settingsVars,
                   progressCurrent, progressTotal, progressMessage, srvRows, pcBatch, asideVars>>

(* generate answered with an error status *)
generateFailed ==
    /\ pcGen = "sent"
    /\ jobState = "failed"
    /\ errorMsg' = "Generation failed"
    /\ generateFinally
    /\ jobReset
    /\ UNCHANGED <<step, uploadVars, metaVars, mapVars, saveVars, generationComplete,
                   downloadUrl, blob, settingsVars, genReq, progressCurrent, progressTotal, progressMessage,
                   srvRows, pcBatch, asideVars>>

(***************************************************************************)
(* Engine: one generation job (spec 4.3, 4.7, 5, 7).                       *)
(***************************************************************************)
(* the formats the request asks for, in packaging order *)
requestedFormats(req) ==
    (IF req.generate_docx THEN <<"docx">> ELSE << >>)
        \o (IF req.generate_pdf THEN <<"pdf">> ELSE << >>)

(* the artifacts a worker hands to the Output Packager for batch i *)
rendersOf(i, rows, formats) ==
    [k \in 1..Len(formats) |-> [index |-> i, ext |-> formats[k], rows |-> rows]]

(* doc_<index>.<ext> *)
artifactName(index, ext) == <<"doc_", index, ".", ext>>

packageKeyArrival(arts, pos) ==
    Cardinality({q \in 1..pos : arts[q].ext = arts[pos].ext})

(* the key under which the packager files the artifact that arrived at pos: *)
(* its batch index, not its position in the order of completion             *)
packageKey(arts, pos) == arts[pos].index

(* the position of the artifact filed under batch k for format e *)
artifactAt(arts, k, e) ==
    CHOOSE pos \in 1..Len(arts) : packageKey(arts, pos) = k /\ arts[pos].ext = e

(* mergeOutput false: one entry per batch per format, in batch order *)
packageSeparate(arts, n, formats) ==
    LET m == Len(formats)
    IN  [x \in 1..(n * m) |->
            LET k == ((x - 1) \div m) + 1
                e == formats[((x - 1) % m) + 1]
            IN  [name |-> artifactName(k, e), rows |-> arts[artifactAt(arts, k, e)].rows]]

(* mergeOutput true: per format, the artifacts concatenated in batch order *)
packageMerged(arts, n, formats) ==
    [j \in 1..Len(formats) |->
        [name |-> <<"merged", ".", formats[j]>>,
         rows |-> Flatten([k \in 1..n |-> arts[artifactAt(arts, k, formats[j])].rows])]]

package(arts, n, req) ==
    IF req.merge_output THEN packageMerged(arts, n, requestedFormats(req))
    ELSE packageSeparate(arts, n, requestedFormats(req))

keepArtifacts(arts) == arts

(* default tolerance: a failure discards every artifact produced so far *)
discardArtifacts(arts) == << >>

(* the generate request arrives: the Row Batcher groups the session's rows *)
startJob ==
    /\ pcGen = "sent"
    /\ jobState = "none"
    /\ groups' = batch(srvRows, genReq.rows_per_doc)
    /\ jobState' = "running"
    /\ completed' = << >>
    /\ increments' = << >>
    /\ events' = << >>
    /\ artifacts' = << >>
    /\ archive' = << >>
    /\ UNCHANGED <<step, errorMsg, uploadVars, metaVars, mapVars, saveVars, genVars,
                   progressVars, srvRows, pcBatch, asideVars>>

(* a worker finished rendering batch i and sends its increment *)
batchComplete(i) ==
    /\ jobState = "running"
    /\ i \notin Range(completed)
    /\ completed' = Append(completed, i)
    /\ increments' = Append(increments, i)
    /\ artifacts' = artifacts \o rendersOf(i, groups[i], requestedFormats(genReq))
    /\ UNCHANGED <<step, errorMsg, uploadVars, metaVars, mapVars, saveVars, genVars,
                   progressVars, groups, jobState, events, archive, srvRows, pcBatch, asideVars>>

(* rendering or converting batch i failed: under the default tolerance the job aborts *)
batchFailed(i) ==
    /\ jobState = "running"
    /\ i \notin Range(completed)
    /\ jobState' = "failed"
    /\ artifacts' = discardArtifacts(artifacts)
    /\ UNCHANGED <<step, errorMsg, uploadVars, metaVars, mapVars, saveVars, genVars,
                   progressVars, groups, completed, increments, events, archive, srvRows, pcBatch, asideVars>>

reporterCurrentOrdinal(emitted, batchIndex) == batchIndex

(* current = number of batches completed so far: a counter, not the batch ordinal *)
reporterCurrent(emitted, batchIndex) == emitted + 1

(* the aggregator takes one increment and emits one event on the channel *)
reporterEmit ==
    /\ jobState = "running"
    /\ increments # << >>
    /\ LET event == [type |-> "progress",
                     current |-> reporterCurrent(Len(events), Head(increments)),
                     total |-> Len(groups),
                     message |-> "Rendering document"]
       IN  /\ events' = Append(events, event)
           /\ wsChannel' = IF wsConnection = "open" THEN wsChannel \cup {event} ELSE wsChannel
    /\ increments' = Tail(increments)
    /\ UNCHANGED <<step, errorMsg, uploadVars, metaVars, mapVars, saveVars, genVars,
                   progressCurrent, progressTotal, progressMessage, wsConnection,
                   groups, jobState, completed, artifacts, archive, srvRows, pcBatch, asideVars>>

(* every batch is rendered and reported: the artifact is packaged *)
jobFinish ==
    /\ jobState = "running"
    /\ Range(completed) = 1..Len(groups)
    /\ increments = << >>
    /\ jobState' = "done"
    /\ archive' = package(artifacts, Len(groups), genReq)
    /\ UNCHANGED <<step, errorMsg, uploadVars, metaVars, mapVars, saveVars, genVars,
                   progressVars, groups, completed, increments, events, artifacts, srvRows, pcBatch, asideVars>>

Engine ==
    \/ startJob
    \/ \E i \in 1..Len(groups) : batchComplete(i)
    \/ \E i \in 1..Len(groups) : batchFailed(i)
    \/ reporterEmit
    \/ jobFinish

RequestFlow ==
    \/ toggleEditor
    \/ saveEditedData
    \/ saveOk
    \/ saveFailed
    \/ handleGenerate
    \/ \E m \in wsChannel : onmessage(m)
    \/ generateOk
    \/ generateFailed

(* the files picked while the request flow is explored *)
FlowDataFiles == {"bob_ann.csv", "empty.csv"}

FlowTemplateFiles == {"letter.docx", "tag.docx"}

Next == UploadFlow(FlowDataFiles, FlowTemplateFiles) \/ RequestFlow \/ Engine

Spec == Init /\ [][Next]_vars

(* C8: no update_data request is in flight while a generate request is in  *)
(* flight, in whichever order the two were started.                        *)
NoSaveWhileGenerating == ~(pcSave = "sent" /\ pcGen = "sent")

(* C9: the Progress Reporter emits one event per completed batch, current  *)
(* never decreases from one event to the next, total is the batch count in *)
(* every event, and the last event of a finished job has current = total.  *)
ReporterEventsMonotone ==
    /\ Len(events) + Len(increments) = Len(completed)
    /\ \A i, j \in 1..Len(events) : i < j => events[i].current <= events[j].current
    /\ \A i \in 1..Len(events) : events[i].total = Len(groups)
    /\ jobState = "done" =>
          /\ Len(events) = Len(groups)
          /\ events # << >> => events[Len(events)].current = events[Len(events)].total

ReporterEventsMonotoneWitness ==
    /\ jobState = "done"
    /\ Len(events) >= 2
    /\ completed[1] # 1
    /\ events[Len(events)].current = Len(groups)

(* C10: while one handleGenerate call is in progress the progress the client *)
(* shows never decreases.                                                    *)
ProgressCurrentNeverDecreases ==
    [][(isGenerating /\ isGenerating') => progressCurrent' >= progressCurrent]_vars

(***************************************************************************)
(* Generator: the output option toggles of step 2.                         *)
(***************************************************************************)
optionsFrame ==
    UNCHANGED <<step, errorMsg, uploadVars, metaVars, mapVars, saveVars, isGenerating,
                generationComplete, downloadUrl, pcGen, genReq, blob, showDocSettings,
                docSettings, progressVars, jobVars, srvRows, pcBatch, asideVars>>

toggleDocx ==
    /\ step = 2
    /\ options' = [options EXCEPT !.docx = ~options.docx]
    /\ optionsFrame

togglePdf ==
    /\ step = 2
    /\ options' = [options EXCEPT !.pdf = ~options.pdf]
    /\ optionsFrame

toggleRemoveEmptyPages ==
    /\ step = 2
    /\ options' = [options EXCEPT !.removeEmptyPages = ~options.removeEmptyPages]
    /\ optionsFrame

toggleMergeOutput ==
    /\ step = 2
    /\ options' = [options EXCEPT !.mergeOutput = ~options.mergeOutput]
    /\ optionsFrame

(***************************************************************************)
(* The progress channel can be lost at any moment (spec 5, Cancellation).  *)
(***************************************************************************)
jobAbortedByDisconnect(s) == IF s = "running" THEN "cancelled" ELSE s

(* what losing the consumer does to the job: nothing *)
jobAfterDisconnect(s) == s

(* the socket closes under the client; the component has no onclose handler *)
(* and keeps the WebSocket object until the finally block                   *)
wsDisconnect ==
    /\ wsConnection = "open"
    /\ wsConnection' = "closed"
    /\ jobState' = jobAfterDisconnect(jobState)
    /\ UNCHANGED <<step, errorMsg, uploadVars, metaVars, mapVars, saveVars, genVars,
                   progressCurrent, progressTotal, progressMessage, wsChannel,
                   groups, completed, increments, events, artifacts, archive,
                   srvRows, pcBatch, asideVars>>

(***************************************************************************)
(* One upload followed by generation jobs, with the engine's workers, the  *)
(* aggregator and the service's responses scheduled fairly.                *)
(***************************************************************************)
JobDataFiles == {"bob_ann.csv"}

JobTemplateFiles == {"letter.docx"}

GenerateFlow ==
    \/ toggleDocx
    \/ togglePdf
    \/ toggleMergeOutput
    \/ handleGenerate
    \/ \E m \in wsChannel : onmessage(m)
    \/ wsDisconnect
    \/ generateOk
    \/ generateFailed

NextJob == UploadFlow(JobDataFiles, JobTemplateFiles) \/ GenerateFlow \/ Engine

batchEnds == \E i \in 1..Len(groups) : batchComplete(i) \/ batchFailed(i)

FairJob ==
    /\ WF_vars(startJob)
    /\ WF_vars(batchEnds)
    /\ WF_vars(reporterEmit)
    /\ WF_vars(jobFinish)
    /\ WF_vars(generateOk)
    /\ WF_vars(generateFailed)

SpecJob == Init /\ [][NextJob]_vars /\ FairJob

(* C11: losing or closing the progress channel changes nothing of the job, *)
(* and every generate request in flight is eventually answered, whether    *)
(* the channel was lost or not.                                            *)
DisconnectNeverCancelsJob ==
    /\ [][(wsConnection = "open" /\ wsConnection' = "closed")
            => (UNCHANGED jobVars /\ pcGen' = pcGen)]_vars
    /\ [](jobState # "cancelled")
    /\ (pcGen = "sent") ~> (pcGen = "idle")

(* the job finished with every event emitted after the channel was lost: *)
(* none of them reached the client                                       *)
DisconnectNeverCancelsJobWitness ==
    /\ wsConnection = "closed"
    /\ jobState = "done"
    /\ Len(events) = 2
    /\ wsChannel = {}
    /\ progressCurrent = 0

(* the format an archive entry is in: the extension of its name *)
extensionOf(entry) == entry.name[Len(entry.name)]

(* arch holds exactly one artifact per batch of gs per format of req, named *)
(* doc_<index>.<ext>, the one of index i holding the rows of gs[i]          *)
onePerBatchPerFormat(arch, gs, req) ==
    LET formats == (IF req.generate_docx THEN {"docx"} ELSE {})
                       \cup (IF req.generate_pdf THEN {"pdf"} ELSE {})
    IN  /\ Len(arch) = Len(gs) * Cardinality(formats)
        /\ \A x, y \in 1..Len(arch) : x # y => arch[x].name # arch[y].name
        /\ \A x \in 1..Len(arch) :
              \E i \in 1..Len(gs), e \in formats :
                  arch[x].name = <<"doc_", i, ".", e>> /\ arch[x].rows = gs[i]
        /\ \A i \in 1..Len(gs), e \in formats :
              \E x \in 1..Len(arch) : arch[x].name = <<"doc_", i, ".", e>>

(* C12: with mergeOutput false the packaged archive, and the archive the    *)
(* client receives, hold exactly one artifact per batch per requested       *)
(* format, named doc_<index>.<ext> without collisions, the artifact of      *)
(* index i holding the rows of batch i, in whatever order batches complete. *)
ArchiveOnePerBatchPerFormat ==
    /\ (jobState = "done" /\ ~genReq.merge_output)
           => onePerBatchPerFormat(archive, groups, genReq)
    /\ (step = 3 /\ ~genReq.merge_output)
           => onePerBatchPerFormat(blob, batch(srvRows, genReq.rows_per_doc), genReq)

ArchiveOnePerBatchPerFormatWitness ==
    /\ jobState = "done"
    /\ ~genReq.merge_output
    /\ completed = <<2, 1>>
    /\ Len(archive) = 4
    /\ archive[1].rows # archive[3].rows

(* C13: a failed job holds no artifact and no archive; a download is on    *)
(* offer exactly at step 3, and then for every requested format the        *)
(* delivered archive holds all rows of the dataset; a generate response    *)
(* moves the client to step 3 with downloadUrl set only when the job       *)
(* succeeded, and otherwise leaves it on step 2 with an error message and  *)
(* no download.                                                            *)
NoPartialArchive ==
    /\ [](jobState = "failed" => (artifacts = << >> /\ archive = << >>))
    /\ []((step = 3) <=> (downloadUrl # ""))
    /\ [](step = 3 =>
            \A e \in Range(requestedFormats(genReq)) :
                LET mine == SelectSeq(blob, LAMBDA entry : extensionOf(entry) = e)
                IN  Flatten([x \in 1..Len(mine) |-> mine[x].rows]) = srvRows)
    /\ [][(pcGen = "sent" /\ pcGen' = "idle") =>
             IF jobState = "done"
             THEN step' = 3 /\ downloadUrl' # "" /\ blob' = archive
             ELSE step' = 2 /\ errorMsg' # "" /\ downloadUrl' = "" /\ blob' = << >>]_vars

(* a batch failed after another one had produced its artifacts *)
NoPartialArchiveWitness ==
    /\ jobState = "failed"
    /\ completed # << >>
    /\ artifacts = << >>
    /\ pcGen = "sent"

(***************************************************************************)
(* Extractor component and the converter/extract operation (spec 4.8).     *)
(***************************************************************************)
(* file names a user can drop on the Extractor *)
PdfNames == {<<"a", ".", "p", "d", "f">>, <<"B", ".", "P", "D", "F">>, <<"c", ".", "t", "x", "t">>}

(* String.prototype.endsWith *)
endsWith(s, suffix) ==
    /\ Len(s) >= Len(suffix)
    /\ SubSeq(s, Len(s) - Len(suffix) + 1, Len(s)) = suffix

extractorFrame ==
    UNCHANGED <<step, errorMsg, uploadVars, metaVars, mapVars, saveVars, genVars,
                progressVars, jobVars, srvRows, pcBatch, renderVars>>

(* processPdfSelection without the return of its guard: the assignments *)
(* that follow the guard run for every file                             *)
processPdfSelectionNoReturn(file) ==
    /\ pdfFile = NoPdf
    /\ pdfFile' = file
    /\ exErrorMsg' = ""
    /\ exStep' = 2
    /\ UNCHANGED <<exIsUploading, processingOption, outputFormat, pcExtract, exReq,
                   exResponse, exDownload>>
    /\ extractorFrame

(* handlePdfDrop / handlePdfSelect: the drop zone is shown while no file is held *)
processPdfSelection(file) ==
    /\ pdfFile = NoPdf
    /\ IF ~endsWith(toLowerCase(file), <<".", "p", "d", "f">>)
       THEN /\ exErrorMsg' = "Please upload a valid PDF file."
            /\ UNCHANGED <<pdfFile, exStep>>
       ELSE /\ pdfFile' = file
            /\ exErrorMsg' = ""
            /\ exStep' = 2
    /\ UNCHANGED <<exIsUploading, processingOption, outputFormat, pcExtract, exReq,
                   exResponse, exDownload>>
    /\ extractorFrame

(* the remove button next to the held file *)
clearFile ==
    /\ pdfFile # NoPdf
    /\ pdfFile' = NoPdf
    /\ exStep' = 1
    /\ exErrorMsg' = ""
    /\ UNCHANGED <<exIsUploading, processingOption, outputFormat, pcExtract, exReq,
                   exResponse, exDownload>>
    /\ extractorFrame

(* the dismiss button of the error banner *)
dismissError ==
    /\ exErrorMsg # ""
    /\ exErrorMsg' = ""
    /\ UNCHANGED <<exStep, pdfFile, exIsUploading, processingOption, outputFormat,
                   pcExtract, exReq, exResponse, exDownload>>
    /\ extractorFrame

setProcessingOption(o) ==
    /\ exStep >= 2
    /\ processingOption' = o
    /\ UNCHANGED <<exStep, pdfFile, exIsUploading, outputFormat, exErrorMsg, pcExtract,
                   exReq, exResponse, exDownload>>
    /\ extractorFrame

setOutputFormat(f) ==
    /\ exStep >= 2
    /\ outputFormat' = f
    /\ UNCHANGED <<exStep, pdfFile, exIsUploading, processingOption, exErrorMsg,
                   pcExtract, exReq, exResponse, exDownload>>
    /\ extractorFrame

(* handleExtract up to the await; the button is disabled while isUploading *)
handleExtract ==
    /\ exStep >= 2
    /\ ~exIsUploading
    /\ pdfFile # NoPdf
    /\ exIsUploading' = TRUE
    /\ exErrorMsg' = ""
    /\ exReq' = [pdfFile |-> pdfFile, processingOption |-> processingOption,
                 outputFormat |-> outputFormat]
    /\ pcExtract' = "sent"
    /\ UNCHANGED <<exStep, pdfFile, processingOption, outputFormat, exResponse, exDownload>>
    /\ extractorFrame

(* the kind of file extract returns for n tables (tablesOnly) or pages (allText) *)
extractKind(format, n) ==
    IF format = "excel" THEN "xlsx"
    ELSE IF n = 1 THEN "csv" ELSE "zip"

(* the extension handleExtract gives the download *)
downloadExt(option, format) ==
    LET ext == IF format = "csv" THEN "csv" ELSE "xlsx"
    IN  IF option = "tablesOnly" /\ format = "csv" THEN "zip" ELSE ext

(* extract answered ok with a file made of n tables or pages: the download *)
(* is triggered, then clearFile()                                          *)
extractOk(n) ==
    /\ pcExtract = "sent"
    /\ exResponse' = [kind |-> extractKind(exReq.outputFormat, n), tables |-> n]
    /\ exDownload' = [ext |-> downloadExt(processingOption, outputFormat),
                      kind |-> extractKind(exReq.outputFormat, n)]
    /\ pdfFile' = NoPdf
    /\ exStep' = 1
    /\ exErrorMsg' = ""
    /\ exIsUploading' = FALSE
    /\ pcExtract' = "idle"
    /\ UNCHANGED <<processingOption, outputFormat, exReq>>
    /\ extractorFrame

ExtractionErrors == {"", "ExtractionError: the PDF cannot be parsed"}

(* what fetch rejects with when the service cannot be reached *)
NetworkErrors == {"", "Failed to fetch"}

(* a response with an error status, or no response at all *)
ErrorResponse == [kind |-> "error", tables |-> 0]

extractErrorTextRaw(detail) == detail

(* new Error(errData.detail || "Extraction failed"), then                 *)
(* err.message || "Could not connect to the extraction server."           *)
extractErrorText(detail) ==
    LET message == IF detail # "" THEN detail ELSE "Extraction failed"
    IN  IF message # "" THEN message ELSE "Could not connect to the extraction server."

(* extract answered with an error status whose body carries detail *)
extractFailed(detail) ==
    /\ pcExtract = "sent"
    /\ exResponse' = ErrorResponse
    /\ exErrorMsg' = extractErrorText(detail)
    /\ exIsUploading' = FALSE
    /\ pcExtract' = "idle"
    /\ UNCHANGED <<exStep, pdfFile, processingOption, outputFormat, exReq, exDownload>>
    /\ extractorFrame

(* fetch rejected with an error whose message is message *)
extractUnreachable(message) ==
    /\ pcExtract = "sent"
    /\ exResponse' = ErrorResponse
    /\ exErrorMsg' = IF message # "" THEN message
                     ELSE "Could not connect to the extraction server."
    /\ exIsUploading' = FALSE
    /\ pcExtract' = "idle"
    /\ UNCHANGED <<exStep, pdfFile, processingOption, outputFormat, exReq, exDownload>>
    /\ extractorFrame

NextExtractor ==
    \/ \E file \in PdfNames : processPdfSelection(file)
    \/ clearFile
    \/ dismissError
    \/ \E o \in {"allText", "tablesOnly"} : setProcessingOption(o)
    \/ \E f \in {"excel", "csv"} : setOutputFormat(f)
    \/ handleExtract
    \/ \E n \in 0..MaxTables : extractOk(n)
    \/ \E detail \in ExtractionErrors : extractFailed(detail)
    \/ \E message \in NetworkErrors : extractUnreachable(message)

SpecExtractor == Init /\ [][NextExtractor]_vars

(* C14: the extension the Extractor gives a download names the kind of    *)
(* file the service returned (a single CSV for one table or page, a zip   *)
(* of CSVs otherwise, a workbook for excel), for every processing option  *)
(* and every number of tables or pages.                                   *)
DownloadExtensionMatchesFile ==
    exDownload # NoDownload => exDownload.ext = exDownload.kind

(* C21: when an extract request completes, isUploading is false; after a   *)
(* success the Extractor is reset (pdfFile null, step 1, errorMsg empty);  *)
(* after a failure the file and the step are what they were and errorMsg   *)
(* is non-empty; a request is sent only for a selected file.               *)
ExtractCompletionResetsOrKeeps ==
    /\ [][(pcExtract = "sent" /\ pcExtract' = "idle") =>
             /\ ~exIsUploading'
             /\ exResponse'.kind # "error" =>
                   (pdfFile' = NoPdf /\ exStep' = 1 /\ exErrorMsg' = "")
             /\ exResponse'.kind = "error" =>
                   (pdfFile' = pdfFile /\ exStep' = exStep /\ exErrorMsg' # "")]_vars
    /\ [][(pcExtract = "idle" /\ pcExtract' = "sent") =>
             (pdfFile # NoPdf /\ exReq'.pdfFile = pdfFile)]_vars
    /\ [](pcExtract = "idle" => ~exIsUploading)

ExtractCompletionResetsOrKeepsWitness ==
    /\ pcExtract = "idle"
    /\ exResponse = ErrorResponse
    /\ pdfFile # NoPdf /\ exStep = 2
    /\ exErrorMsg = "Extraction failed"
    /\ exDownload # NoDownload

(* C15: after a failed upload or metadata response the client is still on *)
(* step 1 with no metadata and no mappings applied, and the message it    *)
(* shows is the descriptive message of the failure, unchanged.            *)
UploadFailureSurfacedVerbatim ==
    upError # "" =>
        /\ step = 1
        /\ ~isUploading
        /\ mappings = NoMappings
        /\ dataHeaders = << >> /\ docxPlaceholders = << >> /\ previewRows = << >>
        /\ errorMsg = upError

(***************************************************************************)
(* Generator: the Document Settings panel of step 2.                       *)
(***************************************************************************)
(* values of PAGE_SIZE_OPTIONS, COMMON_FONTS and of the number inputs *)
PageSizeInputs == {"default", "a4", "custom"}

WidthInputs == {850, 600}

HeightInputs == {1100, 1400}

FontNameInputs == {"", "Arial"}

FontSizeInputs == {0, 12}

docSettingsFrame ==
    UNCHANGED <<step, errorMsg, uploadVars, metaVars, mapVars, saveVars, isGenerating,
                generationComplete, downloadUrl, pcGen, genReq, blob, options,
                progressVars, jobVars, srvRows, pcBatch, asideVars>>

toggleDocSettings ==
    /\ step = 2
    /\ showDocSettings' = ~showDocSettings
    /\ UNCHANGED docSettings
    /\ docSettingsFrame

(* <select bind:value={docSettings.pageSize}> *)
setPageSize(v) ==
    /\ step = 2 /\ showDocSettings
    /\ docSettings' = [docSettings EXCEPT !.pageSize = v]
    /\ UNCHANGED showDocSettings
    /\ docSettingsFrame

(* the width input, shown while the page size is custom *)
setCustomWidth(w) ==
    /\ step = 2 /\ showDocSettings
    /\ docSettings.pageSize = "custom"
    /\ docSettings' = [docSettings EXCEPT !.customWidth = w]
    /\ UNCHANGED showDocSettings
    /\ docSettingsFrame

(* the height input, shown while the page size is custom *)
setCustomHeight(h) ==
    /\ step = 2 /\ showDocSettings
    /\ docSettings.pageSize = "custom"
    /\ docSettings' = [docSettings EXCEPT !.customHeight = h]
    /\ UNCHANGED showDocSettings
    /\ docSettingsFrame

(* <select bind:value={docSettings.fontName}> *)
setFontName(f) ==
    /\ step = 2 /\ showDocSettings
    /\ docSettings' = [docSettings EXCEPT !.fontName = f]
    /\ UNCHANGED showDocSettings
    /\ docSettingsFrame

(* <input type="number" bind:value={docSettings.fontSize}> *)
setFontSize(z) ==
    /\ step = 2 /\ showDocSettings
    /\ docSettings' = [docSettings EXCEPT !.fontSize = z]
    /\ UNCHANGED showDocSettings
    /\ docSettingsFrame

DocSettings ==
    \/ toggleDocSettings
    \/ \E v \in PageSizeInputs : setPageSize(v)
    \/ \E w \in WidthInputs : setCustomWidth(w)
    \/ \E h \in HeightInputs : setCustomHeight(h)
    \/ \E f \in FontNameInputs : setFontName(f)
    \/ \E z \in FontSizeInputs : setFontSize(z)

SettingsDataFiles == {"ann_bob.csv"}

SettingsTemplateFiles == {"letter.docx"}

NextSettings ==
    \/ UploadFlow(SettingsDataFiles, SettingsTemplateFiles)
    \/ DocSettings
    \/ toggleRemoveEmptyPages
    \/ handleGenerate
    \/ \E m \in wsChannel : onmessage(m)
    \/ generateOk
    \/ generateFailed
    \/ Engine

SpecSettings == Init /\ [][NextSettings]_vars

(* C16: the generate request in flight carries page_width and page_height *)
(* exactly as null unless the page size sent is custom, font_name as null *)
(* when the font name was empty and font_size as null when the font size  *)
(* was 0; a default page size with no font set sends four nulls.          *)
DocSettingsPayloadNulls ==
    [][(pcGen = "idle" /\ pcGen' = "sent") =>
          LET sent == genReq'.doc_settings
          IN  /\ sent.page_size = docSettings.pageSize
              /\ (docSettings.pageSize # "custom") =>
                     (sent.page_width = JsNull /\ sent.page_height = JsNull)
              /\ (sent.page_width # JsNull \/ sent.page_height # JsNull) =>
                     /\ docSettings.pageSize = "custom"
                     /\ sent.page_width = <<docSettings.customWidth>>
                     /\ sent.page_height = <<docSettings.customHeight>>
              /\ (docSettings.fontName = "") => sent.font_name = JsNull
              /\ (docSettings.fontName # "") => sent.font_name = <<docSettings.fontName>>
              /\ (docSettings.fontSize = 0) => sent.font_size = JsNull
              /\ (docSettings.fontSize # 0) => sent.font_size = <<docSettings.fontSize>>]_vars

(* a request sent with a named page size while custom dimensions and a *)
(* font were set earlier                                                *)
DocSettingsPayloadNullsWitness ==
    /\ pcGen = "sent"
    /\ genReq.doc_settings.page_size = "a4"
    /\ genReq.doc_settings.page_width = JsNull
    /\ docSettings.customWidth = 600
    /\ genReq.doc_settings.font_name = <<"Arial">>
    /\ genReq.doc_settings.font_size = JsNull

(***************************************************************************)
(* Document Renderer (engine, spec 4.4) applied to one batch.  A template  *)
(* body is a sequence of runs, each literal text or a placeholder tag; a   *)
(* rendered document is the sequence of the texts of its runs.             *)
(***************************************************************************)
TextRun(t) == [tag |-> FALSE, text |-> t]

TagRun(ph) == [tag |-> TRUE, text |-> ph]

TemplateBodies ==
    { <<TextRun(<<"T", "o", " ">>), TagRun(PhName), TextRun(<<":", " ">>), TagRun(PhAmount)>>,
      <<TagRun(PhName), TagRun(PhAmount), TextRun(<<";">>), TagRun(PhName), TagRun(PhAmount)>>,
      <<TagRun(PhAmount), TagRun(PhAmount), TextRun(<<"+">>), TagRun(PhAmount)>> }

RenderMappings ==
    { (PhName :> FreshConfig("data_column", ColName))
          @@ (PhAmount :> Config("combined", ColAmount, EmptyStr, <<"I", "d", " ">>, <<"!">>,
                                 EmptyStr, "none", FALSE)),
      (PhName :> Config("custom_text", EmptyStr, <<"h", "i">>, EmptyStr, EmptyStr,
                        EmptyStr, "none", FALSE))
          @@ (PhAmount :> Config("data_column", ColAmount, EmptyStr, EmptyStr, EmptyStr,
                                 ValZero, "uppercase", FALSE)) }

(* which occurrence of its placeholder the tag run at position p is *)
occurrence(body, p) ==
    Cardinality({q \in 1..p : body[q].tag /\ body[q].text = body[p].text})

surplusSlotLiteral(tagText) == tagText

(* an occurrence slot the batch has no row for is blanked *)
surplusSlot(tagText) == EmptyStr

renderBatch(body, maps, rows) ==
    [p \in 1..Len(body) |->
        IF ~body[p].tag THEN body[p].text
        ELSE IF occurrence(body, p) <= Len(rows)
             THEN resolve(maps[body[p].text], rows[occurrence(body, p)])
             ELSE surplusSlot(body[p].text)]

(* Template Introspector on a rendered document: the runs still spelling a tag *)
remainingTags(doc) == {p \in 1..Len(doc) : doc[p] # EmptyStr /\ doc[p][1] = "#"}

InitRender ==
    /\ ComponentInit
    /\ EngineInit
    /\ ExtractorInit
    /\ totalRows = 0
    /\ rowsPerDoc = 1
    /\ memory = << >>
    /\ srvRows = << >>
    /\ pcBatch = "idle"
    /\ rnTemplate \in TemplateBodies
    /\ rnMapping \in RenderMappings
    /\ rnBatch \in SeqsUpTo(RowPool, MaxRows)
    /\ pcRender = "idle"
    /\ rendered = << >>

RunRender ==
    /\ pcRender = "idle"
    /\ rendered' = renderBatch(rnTemplate, rnMapping, rnBatch)
    /\ pcRender' = "done"
    /\ UNCHANGED <<step, errorMsg, uploadVars, metaVars, mapVars, saveVars, genVars,
                   progressVars, jobVars, srvRows, pcBatch, extractorVars,
                   rnTemplate, rnMapping, rnBatch>>

NextRender == RunRender

SpecRender == InitRender /\ [][NextRender]_vars

(* C17: a rendered batch keeps the literal runs, spells no placeholder tag, *)
(* fills the k-th occurrence of a placeholder from the k-th row of the      *)
(* batch and blanks the occurrences beyond the last row.                    *)
RenderLeavesNoTag ==
    pcRender = "done" =>
        /\ Len(rendered) = Len(rnTemplate)
        /\ remainingTags(rendered) = {}
        /\ \A p \in 1..Len(rnTemplate) :
              LET run == rnTemplate[p]
                  k == Cardinality({q \in 1..p : rnTemplate[q] = run})
              IN  IF ~run.tag THEN rendered[p] = run.text
                  ELSE IF k <= Len(rnBatch)
                       THEN rendered[p] = resolve(rnMapping[run.text], rnBatch[k])
                       ELSE rendered[p] = EmptyStr

(* a batch of one row rendered into a template with three Amount slots *)
RenderLeavesNoTagWitness ==
    /\ pcRender = "done"
    /\ Len(rnBatch) = 1
    /\ Cardinality({p \in 1..Len(rnTemplate) : rnTemplate[p] = TagRun(PhAmount)}) = 3
    /\ rendered[1] # EmptyStr
    /\ rendered[2] = EmptyStr
    /\ rendered[4] = EmptyStr

(***************************************************************************)
(* autoDetectMappings and smartMapAll on datasets whose headers differ     *)
(* from the tags, with the global memory earlier visits may have left.     *)
(***************************************************************************)
ColClient == <<"C", "l", "i", "e", "n", "t">>

DetectMemoryInputs ==
    { << >>,
      (PhName :> FreshConfig("data_column", ColClient))
          @@ (PhAmount :> Config("combined", ColAmount, EmptyStr, <<"I", "d", " ">>, EmptyStr,
                                 EmptyStr, "none", FALSE)),
      (PhName :> Config("custom_text", EmptyStr, <<"h", "i">>, EmptyStr, EmptyStr,
                        EmptyStr, "none", FALSE))
          @@ (PhAmount :> Config("custom_text", ColAmount, EmptyStr, EmptyStr, EmptyStr,
                                 EmptyStr, "none", FALSE)),
      (PhAmt :> Config("custom_text", EmptyStr, <<"h", "i">>, EmptyStr, EmptyStr,
                       EmptyStr, "none", FALSE)) }

InitDetect ==
    /\ ComponentInit
    /\ EngineInit
    /\ ExtractorInit
    /\ RenderIdle
    /\ totalRows = 0
    /\ rowsPerDoc = 1
    /\ memory \in DetectMemoryInputs
    /\ srvRows = << >>
    /\ pcBatch = "idle"

DetectDataFiles == {"ann_bob.csv", "spaced.csv", "ties.csv"}

NextDetect == UploadFlow(DetectDataFiles, TemplateFiles) \/ smartMapAll

SpecDetect == InitDetect /\ [][NextDetect]_vars

(* lower case with white space removed *)
normalised(s) == SelectSeq(toLowerCase(s), LAMBDA c : c # " ")

(* the positions of the headers whose normalised name is that of the tag ph *)
sameName(headers, ph) ==
    {i \in 1..Len(headers) : normalised(headers[i]) = normalised(Tail(ph))}

(* C18: right after autoDetectMappings a placeholder has its memory entry,  *)
(* marked fromMemory, if that entry is a data_column or combined one whose  *)
(* column is a current header or a custom_text one with non-empty text;     *)
(* otherwise a fresh data_column mapping to the first header of the same    *)
(* normalised name, or a fresh empty custom_text; every data_column or      *)
(* combined mapping then names a current header.                            *)
AutoDetectTakesValidMemory ==
    [][(pcUpload = "metadata" /\ step' = 2) =>
          /\ \A ph \in Range(docxPlaceholders') :
                LET usable ==
                        /\ ph \in DOMAIN memory
                        /\ \/ /\ memory[ph].type \in {"data_column", "combined"}
                              /\ \E i \in 1..Len(dataHeaders') : dataHeaders'[i] = memory[ph].value
                           \/ /\ memory[ph].type = "custom_text"
                              /\ memory[ph].customText # EmptyStr
                    same == sameName(dataHeaders', ph)
                IN  IF usable THEN mappings'[ph] = [memory[ph] EXCEPT !.fromMemory = TRUE]
                    ELSE IF same # {}
                         THEN mappings'[ph] =
                                  FreshConfig("data_column",
                                      dataHeaders'[CHOOSE i \in same : \A j \in same : i <= j])
                         ELSE mappings'[ph] = FreshConfig("custom_text", EmptyStr)
          /\ \A ph \in DOMAIN mappings' :
                mappings'[ph].type \in {"data_column", "combined"} =>
                    \E i \in 1..Len(dataHeaders') : dataHeaders'[i] = mappings'[ph].value]_vars

(* a stale data_column entry was replaced by the header of the same name *)
(* while a combined entry with a current column was restored             *)
AutoDetectTakesValidMemoryWitness ==
    /\ step = 2
    /\ PhName \in DOMAIN mappings /\ PhAmount \in DOMAIN mappings
    /\ mappings[PhName] = FreshConfig("data_column", ColName)
    /\ mappings[PhAmount].type = "combined"
    /\ mappings[PhAmount].fromMemory

(* the edit distance of a and b, by suffixes: D[i, j] is the distance of *)
(* a from position i on and b from position j on                         *)
editDistance(a, b) ==
    LET D[i \in 1..(Len(a) + 1), j \in 1..(Len(b) + 1)] ==
            IF i > Len(a) THEN Len(b) + 1 - j
            ELSE IF j > Len(b) THEN Len(a) + 1 - i
            ELSE IF a[i] = b[j] THEN D[i + 1, j + 1]
            ELSE 1 + Min(D[i + 1, j + 1], Min(D[i + 1, j], D[i, j + 1]))
    IN  D[1, 1]

(* the header smartMapAll is to pick for ph: "" when there is none *)
nearestHeader(headers, ph) ==
    LET same == sameName(headers, ph)
        dist(i) == editDistance(normalised(Tail(ph)), normalised(headers[i]))
        near == {i \in 1..Len(headers) : dist(i) <= 3}
    IN  IF same # {} THEN headers[CHOOSE i \in same : \A j \in same : i <= j]
        ELSE IF near # {}
             THEN headers[CHOOSE i \in near :
                              \A j \in near : dist(i) < dist(j) \/ (dist(i) = dist(j) /\ i <= j)]
             ELSE EmptyStr

(* smartMapAll's result maps is right for the mappings old *)
smartMapAllRight(old, maps) ==
    /\ DOMAIN maps = DOMAIN old
    /\ \A ph \in Range(docxPlaceholders) :
          LET h == nearestHeader(dataHeaders, ph)
          IN  IF h # EmptyStr
              THEN maps[ph].type = "data_column" /\ maps[ph].value = h
              ELSE maps[ph] = old[ph]

(* C19: smartMapAll maps a placeholder to the first header of the same      *)
(* normalised name if there is one, otherwise to the header at the smallest *)
(* edit distance among those at distance <= 3 (the first on ties), and      *)
(* leaves a placeholder with no such header as it was.                      *)
SmartMapAllPicksNearest ==
    /\ [](step = 2 =>
            smartMapAllRight(mappings, smartMapped(mappings, dataHeaders, docxPlaceholders)))
    /\ [][(step = 2 /\ step' = 2) => smartMapAllRight(mappings, mappings')]_vars

(* after smartMapAll on the headers Nme, Nam: the tie at distance 1 went to *)
(* the first header and the tag without a near header kept its mapping      *)
SmartMapAllPicksNearestWitness ==
    /\ step = 2
    /\ dataHeaders = <<ColNme, ColNam>>
    /\ PhName \in DOMAIN mappings /\ PhAmount \in DOMAIN mappings
    /\ mappings[PhName] = FreshConfig("data_column", ColNme)
    /\ mappings[PhAmount] = FreshConfig("custom_text", EmptyStr)

(***************************************************************************)
(* Visits: reloading the page starts the component afresh; localStorage    *)
(* and the service keep what they hold.                                    *)
(***************************************************************************)
(* window.location.reload(): the "start over" button of step 3, or the browser's *)
reload ==
    /\ step >= 2
    /\ step' = 1
    /\ dataFile' = NoFile /\ docxFile' = NoFile
    /\ isUploading' = FALSE /\ pcUpload' = "idle" /\ upFiles' = NoRequest
    /\ sessionId' = ""
    /\ errorMsg' = ""
    /\ previewRows' = << >> /\ rawHeaders' = << >>
    /\ dataHeaders' = << >> /\ docxPlaceholders' = << >>
    /\ totalRows' = 0 /\ rowsPerDoc' = 1
    /\ mappings' = NoMappings
    /\ isEditingData' = FALSE /\ isSavingData' = FALSE
    /\ findText' = EmptyStr /\ replaceText' = EmptyStr
    /\ pcSave' = "idle" /\ saveBody' = NoRequest
    /\ isGenerating' = FALSE /\ generationComplete' = FALSE
    /\ downloadUrl' = "" /\ blob' = << >>
    /\ pcGen' = "idle" /\ genReq' = NoRequest
    /\ options' = [docx |-> TRUE, pdf |-> TRUE, removeEmptyPages |-> TRUE, mergeOutput |-> FALSE]
    /\ showDocSettings' = FALSE
    /\ docSettings' = [pageSize |-> "default", customWidth |-> 850, customHeight |-> 1100,
                       fontName |-> "", fontSize |-> 0]
    /\ progressCurrent' = 0 /\ progressTotal' = 0 /\ progressMessage' = ""
    /\ wsConnection' = "null"
    /\ UNCHANGED <<memory, lsMappings, srvFiles, upError, srvRows, jobVars, wsChannel,
                   pcBatch, asideVars>>

MemoryDataFiles == {"ann_bob.csv"}

MemoryTemplateFiles == {"label.docx"}

NextMemory ==
    \/ UploadFlow(MemoryDataFiles, MemoryTemplateFiles)
    \/ \E ph \in Placeholders, t \in MappingTypes : setType(ph, t)
    \/ \E ph \in Placeholders, h \in {EmptyStr, ColName, ColAmount} : selectColumn(ph, h)
    \/ \E ph \in Placeholders, p \in PrefixInputs : editPrefix(ph, p)
    \/ \E ph \in Placeholders, x \in SuffixInputs : editSuffix(ph, x)
    \/ \E ph \in Placeholders, c \in CustomTextInputs : editCustomText(ph, c)
    \/ reload

SpecMemory == Init /\ [][NextMemory]_vars

(* C20: whenever mappings change, every mapping with a non-empty column or  *)
(* custom text is the memory entry of its placeholder and the entries of    *)
(* placeholders absent from mappings are kept; an upload with the same      *)
(* headers gives every placeholder that has a memory entry that entry's     *)
(* type, column, custom text, prefix and suffix, marked fromMemory.         *)
MemoryRestoresMapping ==
    /\ [][(mappings' # mappings /\ mappings' # NoMappings) =>
             /\ \A ph \in DOMAIN mappings' :
                   (mappings'[ph].value # EmptyStr \/ mappings'[ph].customText # EmptyStr)
                       => (ph \in DOMAIN memory' /\ memory'[ph] = mappings'[ph])
             /\ \A ph \in DOMAIN memory \ DOMAIN mappings' :
                   ph \in DOMAIN memory' /\ memory'[ph] = memory[ph]]_vars
    /\ [][(pcUpload = "metadata" /\ step' = 2) =>
             \A ph \in Range(docxPlaceholders') \cap DOMAIN memory :
                 /\ mappings'[ph].type = memory[ph].type
                 /\ mappings'[ph].value = memory[ph].value
                 /\ mappings'[ph].customText = memory[ph].customText
                 /\ mappings'[ph].prefix = memory[ph].prefix
                 /\ mappings'[ph].suffix = memory[ph].suffix
                 /\ mappings'[ph].fromMemory]_vars

(***************************************************************************)
(* Generator: the cells and the find / replace toolbar of the live data    *)
(* editor.                                                                 *)
(***************************************************************************)
startsWith(s, f) == Len(s) >= Len(f) /\ SubSeq(s, 1, Len(f)) = f

(* String.prototype.replace with a string pattern: the first occurrence only *)
RECURSIVE replaceFirst(_, _, _)
replaceFirst(s, f, r) ==
    IF Len(s) < Len(f) THEN s
    ELSE IF startsWith(s, f) THEN r \o SubSeq(s, Len(f) + 1, Len(s))
    ELSE <<s[1]>> \o replaceFirst(Tail(s), f, r)

(* String.prototype.replaceAll with a non-empty string pattern: the        *)
(* occurrences are found left to right and do not overlap                  *)
RECURSIVE replaceAll(_, _, _)
replaceAll(s, f, r) ==
    IF Len(s) < Len(f) THEN s
    ELSE IF startsWith(s, f) THEN r \o replaceAll(SubSeq(s, Len(f) + 1, Len(s)), f, r)
    ELSE <<s[1]>> \o replaceAll(Tail(s), f, r)

(* what the user types in the cells and in the two inputs of the toolbar *)
CellInputs == {<<"n">>}

(* the cells the user types in *)
EditedRows == {1}

EditedColumns == {ColAmount}

FindInputs == {EmptyStr, <<"n">>, <<"n", "n">>}

ReplaceInputs == {EmptyStr, <<"m">>}

dataEditorFrame ==
    UNCHANGED <<step, errorMsg, uploadVars, rawHeaders, dataHeaders, docxPlaceholders,
                totalRows, rowsPerDoc, mapVars, isEditingData, isSavingData, pcSave,
                saveBody, genVars, progressVars, jobVars, srvRows, pcBatch, asideVars>>

(* <input bind:value={row[head]}> of the editor's table *)
editCell(i, head, v) ==
    /\ step = 2
    /\ isEditingData
    /\ i \in 1..Len(previewRows)
    /\ head \in Range(rawHeaders)
    /\ previewRows' = [previewRows EXCEPT ![i] = (head :> v) @@ previewRows[i]]
    /\ UNCHANGED findVars
    /\ dataEditorFrame

(* <input bind:value={findText}> *)
setFindText(f) ==
    /\ step = 2
    /\ isEditingData
    /\ findText' = f
    /\ UNCHANGED <<previewRows, replaceText>>
    /\ dataEditorFrame

(* <input bind:value={replaceText}> *)
setReplaceText(r) ==
    /\ step = 2
    /\ isEditingData
    /\ replaceText' = r
    /\ UNCHANGED <<previewRows, findText>>
    /\ dataEditorFrame

(* the "Replace All" button; every cell of the model is a string *)
replaceAllData ==
    /\ step = 2
    /\ isEditingData
    /\ previewRows' =
          IF findText = EmptyStr THEN previewRows
          ELSE [i \in 1..Len(previewRows) |->
                   [key \in DOMAIN previewRows[i] |->
                       replaceAll(previewRows[i][key], findText, replaceText)]]
    /\ UNCHANGED findVars
    /\ dataEditorFrame

DataEditor ==
    \/ toggleEditor
    \/ \E i \in EditedRows, head \in EditedColumns, v \in CellInputs : editCell(i, head, v)
    \/ \E f \in FindInputs : setFindText(f)
    \/ \E r \in ReplaceInputs : setReplaceText(r)
    \/ replaceAllData
    \/ saveEditedData
    \/ saveOk
    \/ saveFailed

(* the files picked while the data editor is explored *)
DataEditorDataFiles == {"bob_ann.csv", "ragged.csv"}

DataEditorTemplateFiles == {"label.docx"}

NextDataEditor == UploadFlow(DataEditorDataFiles, DataEditorTemplateFiles) \/ DataEditor

SpecDataEditor == Init /\ [][NextDataEditor]_vars

(* C22: when an update_data request completes, the session's DataSet has  *)
(* the number of rows it had, every row after the preview subset that was *)
(* sent is unchanged and in its place, and the rows of the subset are     *)
(* what they were or what the editor sent.                                *)
SaveKeepsRowsOutsidePreview ==
    [][(pcSave = "sent" /\ pcSave' = "idle") =>
          /\ Len(srvRows') = Len(srvRows)
          /\ \A i \in 1..Len(srvRows) :
                /\ i \in DOMAIN srvRows'
                /\ IF i > Len(saveBody.rows)
                   THEN srvRows'[i] = srvRows[i]
                   ELSE srvRows'[i] \in {srvRows[i], saveBody.rows[i]}]_vars

(* the first position at which f occurs in s, 0 when it does not occur *)
indexOf(s, f) ==
    LET at == {k \in 1..(Len(s) - Len(f) + 1) : SubSeq(s, k, k + Len(f) - 1) = f}
    IN  IF at = {} THEN 0 ELSE CHOOSE k \in at : \A j \in at : k <= j

(* s cut at the occurrences of a non-empty f, and the pieces joined by r *)
RECURSIVE splitBy(_, _)
splitBy(s, f) ==
    LET k == indexOf(s, f)
    IN  IF k = 0 THEN <<s>>
        ELSE <<SubSeq(s, 1, k - 1)>> \o splitBy(SubSeq(s, k + Len(f), Len(s)), f)

RECURSIVE joinWith(_, _)
joinWith(pieces, r) ==
    IF Len(pieces) = 1 THEN pieces[1]
    ELSE pieces[1] \o r \o joinWith(Tail(pieces), r)

receivedConfig(sent) ==
    Config(sent.type, sent.value,
           IF sent.type = "custom_text" THEN sent.value ELSE EmptyStr,
           sent.prefix, sent.suffix, EmptyStr, "none", FALSE)

PreviewDataFiles == {"ann_bob.csv"}

PreviewTemplateFiles == {"label.docx"}

NextPreview ==
    \/ UploadFlow(PreviewDataFiles, PreviewTemplateFiles)
    \/ \E ph \in Placeholders, t \in MappingTypes : setType(ph, t)
    \/ \E ph \in Placeholders, p \in PrefixInputs : editPrefix(ph, p)
    \/ \E ph \in Placeholders, c \in CustomTextInputs : editCustomText(ph, c)
    \/ handleGenerate
    \/ \E m \in wsChannel : onmessage(m)
    \/ generateOk
    \/ generateFailed
    \/ Engine

SpecPreview == Init /\ [][NextPreview]_vars

(* C23: when handleGenerate sends its request, for every placeholder the   *)
(* value the engine resolves for the first data row from the mapping of    *)
(* the request is the value the live preview shows for that placeholder.   *)
EngineResolvesWhatPreviewShowed ==
    [][(pcGen = "idle" /\ pcGen' = "sent" /\ Len(previewRows) > 0 /\ Len(srvRows) > 0) =>
          \A ph \in DOMAIN mappings :
              resolve(receivedConfig(genReq'.mapping[ph]), srvRows[1]) = previewOutput[ph]]_vars

(***************************************************************************)
(* The wizard's step and the in-flight flags of the three requests.        *)
(***************************************************************************)
(* C24: step moves 1 -> 2 -> 3 one step at a time and never back; it       *)
(* becomes 2 only on the successful metadata response that follows a       *)
(* successful upload, becomes 3 only on a successful generate response,    *)
(* and at step 3 downloadUrl is set and generationComplete is true.        *)
StepOnlyMovesForward ==
    /\ [](step \in {1, 2, 3})
    /\ [][step' \in {step, step + 1}]_vars
    /\ [][(step = 1 /\ step' = 2) =>
             /\ pcUpload = "metadata" /\ pcUpload' = "idle"
             /\ sessionId # "" /\ srvFiles = upFiles
             /\ upError' = ""
             /\ dataHeaders' = DatasetOf(srvFiles.data_file).headers]_vars
    /\ [][(step = 2 /\ step' = 3) =>
             /\ pcGen = "sent" /\ pcGen' = "idle"
             /\ jobState = "done"
             /\ blob' = archive]_vars
    /\ [](step = 3 => (downloadUrl # "" /\ generationComplete))

StepOnlyMovesForwardWitness ==
    /\ step = 3
    /\ downloadUrl = "blob:archive"
    /\ generationComplete
    /\ sessionId = "session"
    /\ ~isGenerating /\ ~isUploading

(* C25: isUploading, isSavingData and isGenerating are set exactly while   *)
(* the request of their handler is in flight, so each is cleared when the  *)
(* request completes, with success or failure; an upload request is sent   *)
(* only while none is in flight; once handleGenerate has returned the      *)
(* progress WebSocket is closed and wsConnection is null.                  *)
InFlightFlagsCleared ==
    /\ [](isUploading <=> pcUpload # "idle")
    /\ [](isSavingData <=> pcSave # "idle")
    /\ [](isGenerating <=> pcGen # "idle")
    /\ [][(pcUpload # "upload" /\ pcUpload' = "upload") =>
             (pcUpload = "idle" /\ ~isUploading)]_vars
    /\ [][(pcGen = "sent" /\ pcGen' = "idle") =>
             (wsConnection' = "null" /\ wsChannel' = {})]_vars
    /\ [](pcGen = "idle" => wsConnection = "null")

InFlightFlagsClearedWitness ==
    /\ step = 2
    /\ errorMsg = "Generation failed"
    /\ saveBody # NoRequest /\ pcSave = "idle" /\ ~isSavingData
    /\ genReq # NoRequest /\ pcGen = "idle" /\ ~isGenerating
    /\ pcUpload = "idle" /\ ~isUploading
    /\ wsConnection = "null"
    /\ progressCurrent > 0

(***************************************************************************)
(* Extractor: the held file against the extraction in flight.              *)
(***************************************************************************)
(* C26: the held PDF is cleared only by the user's clearFile or by the     *)
(* completion of the extraction of that same file; the completion of an    *)
(* earlier extraction does not discard a file selected after it started.   *)
ExtractionClearsOnlyItsOwnFile ==
    [][(pdfFile # NoPdf /\ pdfFile' # pdfFile) =>
          \/ (pcExtract' = pcExtract /\ exIsUploading' = exIsUploading)
          \/ (pcExtract = "sent" /\ exReq.pdfFile = pdfFile)]_vars

(* the last four characters of name are ".pdf" in any mix of cases *)
isPdfName(name) ==
    LET n == Len(name)
    IN  /\ n >= 4
        /\ name[n - 3] = "."
        /\ name[n - 2] \in {"p", "P"}
        /\ name[n - 1] \in {"d", "D"}
        /\ name[n] \in {"f", "F"}

(* C27: the Extractor's step is 2 exactly when a file is held; a held file *)
(* has a name ending in .pdf in any case; a rejected file leaves pdfFile   *)
(* and step as they were and sets errorMsg.                                *)
ExtractorStepMatchesFile ==
    /\ [](exStep \in {1, 2})
    /\ [](exStep = 2 <=> pdfFile # NoPdf)
    /\ [](pdfFile # NoPdf => isPdfName(pdfFile))
    /\ [][(exErrorMsg' = "Please upload a valid PDF file." /\ exErrorMsg' # exErrorMsg) =>
             (pdfFile' = pdfFile /\ exStep' = exStep)]_vars

ExtractorStepMatchesFileWitness ==
    /\ exStep = 2
    /\ pdfFile = <<"B", ".", "P", "D", "F">>
    /\ exDownload # NoDownload
    /\ exResponse = ErrorResponse

(***************************************************************************)
(* Generator: the output formats of a generate request.                    *)
(***************************************************************************)
(* C29: a generate request in flight asks for at least one output format,  *)
(* whatever the DOCX and PDF toggles were clicked before it was sent.      *)
RequestAsksForSomeFormat ==
    pcGen = "sent" => (genReq.generate_docx \/ genReq.generate_pdf)

====
